---- MODULE Spec2Model ----
(***************************************************************************)
(* State-machine model of blueprints/scripts/setup-blueprint.py: the       *)
(* reconciliation of the NeMo-Tooling blueprint, the project profile and   *)
(* the policy grants of a DataZone domain.  One action per remote call of  *)
(* main(); the remote domain is the shared state two runs act on.          *)
(* SpecRace interleaves the two runs; SpecRole is the state machine of     *)
(* blueprints/scripts/setup_domain_connection_role.py.                     *)
(***************************************************************************)
EXTENDS Integers, Sequences, FiniteSets, TLC

VARIABLES env, remote, run, fails, remote0, after1, interleaved, iam, dcr
vars == <<env, remote, run, fails, remote0, after1, interleaved, iam, dcr>>

(* ------------------------------ bounds -------------------------------- *)
\* Remote-call failures injected in one behaviour (denied/transient errors).
MaxFailures == 1
\* Items the listing APIs return per page.
PageSize == 1

(* ----------------------------- constants ------------------------------ *)
Runs == {1, 2}              \* the first run and the rerun
NoId == 0                   \* Python None / missing key
Unset == "<unset>"          \* environment variable not set
RootUnit == 5               \* the domain's root domain unit
OtherUnit == 6
ToolingId == 1              \* id of the managed 'Tooling' blueprint
FirstFreshId == 40          \* ids the backend hands out start here
OK == "ok"
NotFound == "404: Not Found"   \* head_bucket on a bucket that is not there

\* Errors a remote call raises, by the text str(e) carries.
EDenied == "AccessDeniedException: not authorized"
EConflict == "ConflictException: resource is in use"
EExists == "ValidationException: already exists"
Errors == {EDenied, EConflict, EExists}
\* Errors the calls of setup_domain_connection_role.py meet besides those.
EValidation == "ValidationException: invalid identifier"
EEntityExists == "EntityAlreadyExists: Role with name DataZoneDomainConnectionCreator already exists."
EExistingProfile == "ConflictException: existing user profile"
EResourceNotFound == "ResourceNotFoundException: user profile not found"

\* 'conflict' in str(e).lower()
HasConflict(e) == e \in {EConflict, EExistingProfile}
\* 'already exists' in str(e).lower()
HasAlreadyExists(e) == e \in {EExists, EEntityExists}
\* 'existing' in str(e).lower()
HasExisting(e) == e = EExistingProfile
\* e.response["Error"]["Code"]
ErrorCode(e) ==
  CASE e = EDenied -> "AccessDeniedException"
    [] e \in {EConflict, EExistingProfile} -> "ConflictException"
    [] e \in {EExists, EValidation} -> "ValidationException"
    [] e = EEntityExists -> "EntityAlreadyExists"
    [] e = EResourceNotFound -> "ResourceNotFoundException"

BlueprintName == "NeMo-Tooling"
DefaultProfileName == "NeMo-HyperPod-Profile"
BlueprintDescription == "NeMo Tooling - SageMaker domain with FSx and HyperPod cluster for distributed AI training"
ProfileDescription == "Project profile for NeMo Framework on HyperPod"
GrantProfile == "CREATE_ENVIRONMENT_PROFILE"
GrantFromBlueprint == "CREATE_ENVIRONMENT_FROM_BLUEPRINT"
AccountId == "111122223333"

Min(a, b) == IF a < b THEN a ELSE b

(* ------------------------- pure helpers -------------------------------- *)
\* get_config testing only for unset keys, letting an empty value through.
MissingKeysUnsetOnly(e) ==
  LET required == <<"AWS_REGION", "DOMAIN_ID">>
  IN SelectSeq(required, LAMBDA k : e[k] = Unset)

\* get_config: the required keys that are unset or empty, in order.
MissingKeys(e) ==
  LET required == <<"AWS_REGION", "DOMAIN_ID">>
  IN SelectSeq(required, LAMBDA k : e[k] = Unset \/ e[k] = "")

\* get_config: the returned dictionary.
GetConfig(e) ==
  [AWS_REGION |-> e["AWS_REGION"],
   DOMAIN_ID |-> e["DOMAIN_ID"],
   PROJECT_PROFILE_NAME |->
     IF e["PROJECT_PROFILE_NAME"] = Unset THEN DefaultProfileName
     ELSE e["PROJECT_PROFILE_NAME"]]

\* upload_nemo_tooling_template: the template URL.
TemplateUrl(region) ==
  <<"https://", "nemo-hyperpod-templates", AccountId, region, "blueprints/nemo-tooling-blueprint.yaml">>

\* get_nemo_tooling_user_parameters: key names, ten fixed then twenty numbered.
GetNemoToolingUserParameters ==
  <<<<"HyperPodClusterName", 0>>, <<"NeMoContainerRepository", 0>>,
    <<"NeMoContainerTag", 0>>, <<"InstanceType1", 0>>, <<"KubernetesVersion", 0>>,
    <<"EnableTaskGovernance", 0>>, <<"EnableFSxLustre", 0>>,
    <<"FSxStorageCapacity", 0>>, <<"FSxPerUnitStorageThroughput", 0>>,
    <<"DevModeDisableRollback", 0>>>>
  \o [i \in 1..20 |-> <<"InstanceGroupSettings", i>>]

\* Number of pages a paginator fetches for a listing (an empty listing is one page).
NumPages(items) ==
  IF Len(items) = 0 THEN 1 ELSE (Len(items) + PageSize - 1) \div PageSize

PageOf(items, i) ==
  SubSeq(items, (i - 1) * PageSize + 1, Min(i * PageSize, Len(items)))

\* First item of a page with the given name, or <<>>.
FirstNamed(page, name) ==
  LET hits == SelectSeq(page, LAMBDA x : x.name = name)
  IN IF Len(hits) = 0 THEN <<>> ELSE <<hits[1]>>

\* find_blueprint / find_project_profile: scan pages in order, return the
\* first item with the name; a page that fails (page number f, 0 = none)
\* raises inside the try block, which makes the lookup return None.
\* Result: found is <<item>> or <<>>, err says whether the exception was raised.
RECURSIVE FindFrom(_, _, _, _)
FindFrom(items, name, f, i) ==
  IF i > NumPages(items) THEN [found |-> <<>>, err |-> FALSE]
  ELSE IF i = f THEN [found |-> <<>>, err |-> TRUE]
  ELSE LET hit == FirstNamed(PageOf(items, i), name)
       IN IF hit # <<>> THEN [found |-> hit, err |-> FALSE]
          ELSE FindFrom(items, name, f, i + 1)

\* A lookup that logs the failing page and goes on with the other pages.
FindPagedSkippingFailure(items, name, f) ==
  [FindFrom(items, name, 0, 1) EXCEPT !.err = (f # 0)]

FindPaged(items, name, f) == FindFrom(items, name, f, 1)

\* get_tooling_blueprint_config: the scan has no try block and its break leaves
\* only the inner loop, so every page is read and the last page's match wins.
RECURSIVE ToolingScan(_, _, _)
ToolingScan(items, i, acc) ==
  IF i > NumPages(items) THEN acc
  ELSE LET hit == FirstNamed(PageOf(items, i), "Tooling")
       IN ToolingScan(items, i + 1, IF hit # <<>> THEN hit[1].id ELSE acc)

(* ---------------------------- run state -------------------------------- *)
Terminal == {"complete", "exit1", "aborted"}

NewRun ==
  [pc |-> "get_config",
   config |-> <<>>,
   tooling_blueprint_id |-> NoId,
   manage_access_role_arn |-> <<>>,
   existing_blueprint |-> NoId,
   blueprint_id |-> NoId,
   root_domain_unit_id |-> NoId,
   existing_profile |-> NoId,
   environment_configs |-> <<>>,
   profile_id |-> NoId,
   domain_unit_id |-> NoId,
   existing_profiles |-> {},
   all_profiles |-> {},
   missing |-> <<>>,
   auth_report |-> "",
   grant_reports |-> <<>>,
   clients |-> FALSE,
   log |-> <<>>]

\* The run p may take a step.  Run one after the other, the rerun starts when
\* the first run has ended; two operators running the script at once interleave.
Active(p) ==
  /\ run[p].pc \notin Terminal
  /\ (p = 2 /\ ~interleaved) => run[1].pc \in Terminal

\* main with Step 3 and Step 4 the other way round: the profile before the
\* blueprint authorizations.
MainStepAfterProfileFirst(step) ==
  CASE step = "blueprint" -> "find_project_profile"
    [] step = "profile" -> "get_domain"
    [] step = "authorize" -> "auth.get_project_profile"

\* main, lines 434-461: where main goes once a step has returned.  Step 2 (the
\* blueprint, enabled) is followed by Step 3 (the blueprint authorizations),
\* Step 4 (the project profile) and Step 5 (the all-users authorization).
MainStepAfter(step) ==
  CASE step = "blueprint" -> "get_domain"
    [] step = "authorize" -> "find_project_profile"
    [] step = "profile" -> "auth.get_project_profile"

CanFail == fails < MaxFailures

Logged(r, call, res) == [r EXCEPT !.log = Append(@, <<call, res>>)]
Goto(r, pc) == [r EXCEPT !.pc = pc]
\* An exception that no handler catches ends the process.
Raise(r, call, e) == Goto(Logged(r, call, e), "aborted")

(* ------------------------ initial remote state ------------------------- *)
ExistingBlueprintId == 10   \* a NeMo-Tooling blueprint registered earlier
ExistingProfileId == 20     \* a project profile created earlier
ProfileP1 == 21             \* other profiles already authorized for all users
ProfileP2 == 22
ProfileP9 == 29

ManagedTooling == [id |-> ToolingId, name |-> "Tooling"]
ManagedDataLake == [id |-> 2, name |-> "DataLake"]

DesiredBlueprint(id, region) ==
  [id |-> id, name |-> BlueprintName, description |-> BlueprintDescription,
   templateUrl |-> TemplateUrl(region), userParameters |-> GetNemoToolingUserParameters]
DriftedBlueprint(id) ==
  [id |-> id, name |-> BlueprintName, description |-> "edited by hand",
   templateUrl |-> <<"https://", "elsewhere">>,
   userParameters |-> <<<<"HyperPodClusterName", 0>>>>]
OtherBlueprint ==
  [id |-> 11, name |-> "Other-Blueprint", description |-> "other",
   templateUrl |-> <<"https://", "other">>, userParameters |-> <<>>]

EnvConfig(bp, name, order, id) ==
  [environmentBlueprintId |-> bp, name |-> name, deploymentOrder |-> order, id |-> id]

ConvergedProfile ==
  [id |-> ExistingProfileId, name |-> DefaultProfileName,
   description |-> ProfileDescription, domainUnitId |-> RootUnit,
   environmentConfigurations |->
     <<EnvConfig(ToolingId, "Tooling", 0, 30),
       EnvConfig(ExistingBlueprintId, "NeMo Tooling", 1, 31)>>]
\* The same profile after edits made outside the tool: reordered configs and one more.
DriftedProfile ==
  [ConvergedProfile EXCEPT
     !.description = "edited by hand",
     !.environmentConfigurations =
       <<EnvConfig(ExistingBlueprintId, "NeMo Tooling", 0, 31),
         EnvConfig(11, "Extra", 1, 32),
         EnvConfig(ToolingId, "Tooling", 2, 30)>>]
UnitlessProfile == [ConvergedProfile EXCEPT !.domainUnitId = NoId]
OtherProfile ==
  [id |-> ProfileP1, name |-> "Other-Profile", description |-> "other",
   domainUnitId |-> RootUnit, environmentConfigurations |-> <<>>]

AllUsers == "allUsersGrantFilter"
OneUser == "userIdentifier"
Grant(du, principal, profiles) ==
  [domainUnit |-> du, principal |-> principal, projectProfiles |-> profiles]

InitBlueprints(region) ==
  {<<>>, <<DesiredBlueprint(ExistingBlueprintId, region)>>,
   <<DriftedBlueprint(ExistingBlueprintId)>>,
   <<OtherBlueprint, DesiredBlueprint(ExistingBlueprintId, region)>>}
InitProfiles ==
  {<<>>, <<ConvergedProfile>>, <<DriftedProfile>>, <<UnitlessProfile>>,
   <<OtherProfile, ConvergedProfile>>}
InitGrants ==
  {{},
   {Grant(RootUnit, AllUsers, {ProfileP1, ProfileP2})},
   {Grant(RootUnit, AllUsers, {ProfileP1, ProfileP2}),
    Grant(RootUnit, OneUser, {ProfileP9}),
    Grant(OtherUnit, AllUsers, {ProfileP9})},
   {Grant(RootUnit, AllUsers, {ProfileP1, ExistingProfileId})}}

InitManaged ==
  {<<>>, <<ManagedDataLake>>, <<ManagedTooling>>, <<ManagedDataLake, ManagedTooling>>}
InitToolingRole == {<<>>, <<"arn:aws:iam::role/manage-access">>}
Regions == {"us-east-1", "eu-west-1"}

Env(region, domain, template) ==
  [AWS_REGION |-> region, DOMAIN_ID |-> domain,
   PROJECT_PROFILE_NAME |-> Unset, template |-> template]

Remote(managed, toolingRole, bps, granted, profiles, grants, domainRoot, bucket) ==
  [onDuplicate |-> OK,
   managed |-> managed,
   toolingRole |-> toolingRole,
   bps |-> bps,
   bpConfig |-> {},
   bpGrants |->
     IF granted
     THEN {[entity |-> ExistingBlueprintId, policyType |-> t] :
             t \in {GrantProfile, GrantFromBlueprint}}
     ELSE {},
   domainRoot |-> domainRoot,
   profiles |-> profiles,
   grants |-> grants,
   bucket |-> bucket,
   object |-> FALSE,
   nextId |-> FirstFreshId]

\* Every environment, against a domain where nothing is registered yet.
InitEnvironments ==
  {<<Env(region, domain, template),
     Remote(<<ManagedTooling>>, <<>>, <<>>, FALSE, <<>>, {}, RootUnit, FALSE)>> :
     region \in {Unset, ""} \cup Regions, domain \in {Unset, "", "dzd_1"},
     template \in BOOLEAN}

\* A complete environment against every registered blueprint, profile and grant set.
InitResources ==
  {<<Env("us-east-1", "dzd_1", TRUE),
     Remote(<<ManagedTooling>>, <<"arn:aws:iam::role/manage-access">>,
            bps, bps # <<>>, profiles, grants, RootUnit, TRUE)>> :
     bps \in InitBlueprints("us-east-1"), profiles \in InitProfiles,
     grants \in InitGrants}

\* A complete environment against every shape of the domain around the resources.
InitDomain ==
  {<<Env(region, "dzd_1", TRUE),
     Remote(managed, toolingRole, <<>>, FALSE, profiles,
            {Grant(RootUnit, AllUsers, {ProfileP1, ProfileP2})}, domainRoot, bucket)>> :
     region \in Regions, managed \in InitManaged, toolingRole \in InitToolingRole,
     domainRoot \in {NoId, RootUnit}, bucket \in BOOLEAN,
     profiles \in {<<>>, <<ConvergedProfile>>}}

(* ------------- setup_domain_connection_role.py: the state -------------- *)
\* The role name the script manages and the name of its inline policy.
ROLE_NAME == "DataZoneDomainConnectionCreator"
PolicyName == "DataZoneConnectionCreatorPolicy"
RoleArn == <<"role", AccountId, ROLE_NAME>>

\* create_role, lines 28-43: the trust policy the script composes.
TrustPolicy(account_id, domain_id) ==
  [Principal |-> <<"root", account_id>>,
   Action |-> <<"sts:AssumeRole", "sts:TagSession">>,
   PrincipalArn |-> <<account_id, "DataZone-Env-*-ConnectionCreatorRole-*">>,
   domainId |-> domain_id,
   handAdded |-> FALSE]

\* attach_policy, lines 62-95: the permissions document the script composes.
PolicyDoc(account_id, domain_id) ==
  [Sids |-> <<"DomainScoped", "IAMValidation", "ProjectScoped">>,
   IAMValidation |-> <<account_id, "DataZone-Env-*-ConnectionCreatorRole-*">>,
   domainId |-> domain_id,
   handAdded |-> FALSE]

\* A role as IAM holds it: its trust policy, the inline policy named PolicyName
\* (none, or one document) and whether it carries another inline policy.
Role(trust, policy, other) == [trust |-> trust, policy |-> policy, other |-> other]

\* The roles the account may hold before a run: none, the role of an earlier
\* run for this domain, the role of a run for another domain, and a role whose
\* documents were edited by hand.
InitRoles ==
  {<<>>,
   <<Role(TrustPolicy(AccountId, "dzd_1"), <<PolicyDoc(AccountId, "dzd_1")>>, FALSE)>>,
   <<Role(TrustPolicy(AccountId, "dzd_0"), <<>>, TRUE)>>,
   <<Role([TrustPolicy(AccountId, "dzd_1") EXCEPT !.handAdded = TRUE],
          <<[PolicyDoc(AccountId, "dzd_0") EXCEPT !.handAdded = TRUE]>>, TRUE)>>}

\* The account and the domain as the second script sees them: the role, the
\* user profiles and the owners of the root domain unit, and how the backend
\* answers a registration or an ownership that is already there.
Account(role, registered, owners, profileDuplicate, ownerDuplicate) ==
  [role |-> role, userProfiles |-> registered, owners |-> owners,
   domainRoot |-> RootUnit,
   profileDuplicate |-> profileDuplicate, ownerDuplicate |-> ownerDuplicate]

NoRole == Account(<<>>, {}, {}, EConflict, OK)

\* main, lines 120-141: the locals of one run of the second script.
NewRoleRun ==
  [pc |-> "main",
   domain_id |-> Unset,
   clients |-> FALSE,
   account_id |-> "",
   role_arn |-> <<>>,
   root_unit_id |-> NoId,
   exit_code |-> <<>>,
   log |-> <<>>]

\* The second script is not running.
IdleRoleRun == [NewRoleRun EXCEPT !.pc = "idle"]

RoleTerminal == {"idle", "return", "raised"}

\* How the backend answers a grant that is already there: it accepts it again,
\* or raises a conflict, or raises a validation error saying it already exists.
DuplicateAnswers == {OK, EConflict, EExists}

Init ==
  /\ \E s \in InitEnvironments \cup InitResources \cup InitDomain,
        d \in DuplicateAnswers :
       /\ env = s[1]
       /\ remote = [s[2] EXCEPT !.onDuplicate = d]
  /\ run = [p \in Runs |-> NewRun]
  /\ fails = 0
  /\ remote0 = remote
  /\ after1 = remote
  /\ interleaved = FALSE
  /\ iam = NoRole
  /\ dcr = [p \in Runs |-> IdleRoleRun]

(* ------------------------------ main ----------------------------------- *)
\* main, lines 401-409: get_config (exit 1 on a missing key), then the clients.
GetConfigStep(p) ==
  /\ Active(p)
  /\ run[p].pc = "get_config"
  /\ LET missing == MissingKeys(env) IN
       run' = [run EXCEPT ![p] =
                 IF missing # <<>>
                 THEN Goto([@ EXCEPT !.missing = missing], "exit1")
                 ELSE Goto([@ EXCEPT !.config = GetConfig(env), !.clients = TRUE],
                           "get_caller_identity")]
  /\ after1' = IF p = 2 THEN remote ELSE after1
  /\ UNCHANGED <<interleaved, iam, dcr, env, remote, fails, remote0>>

\* main, line 410: sts.get_caller_identity.
CallerIdentity(p) ==
  /\ Active(p)
  /\ run[p].pc = "get_caller_identity"
  /\ \/ /\ run' = [run EXCEPT ![p] =
                     Goto(Logged(@, "get_caller_identity", OK), "list_managed")]
        /\ UNCHANGED fails
     \/ /\ CanFail
        /\ run' = [run EXCEPT ![p] = Raise(@, "get_caller_identity", EDenied)]
        /\ fails' = fails + 1
  /\ UNCHANGED <<interleaved, iam, dcr, env, remote, remote0, after1>>

\* A Step 1 without the exit: main goes on without a Tooling blueprint id.
FindToolingContinuing(p) ==
  /\ Active(p)
  /\ run[p].pc = "list_managed"
  /\ \/ /\ run' = [run EXCEPT ![p] =
                     Goto([Logged(@, "list_environment_blueprints(managed)", OK)
                             EXCEPT !.tooling_blueprint_id =
                                      ToolingScan(remote.managed, 1, NoId)],
                          "get_environment_blueprint_configuration")]
        /\ UNCHANGED fails
     \/ /\ CanFail
        /\ run' = [run EXCEPT ![p] =
                     Raise(@, "list_environment_blueprints(managed)", EDenied)]
        /\ fails' = fails + 1
  /\ UNCHANGED <<interleaved, iam, dcr, env, remote, remote0, after1>>

\* get_tooling_blueprint_config, lines 178-187, and main's exit at 427-429.
FindTooling(p) ==
  /\ Active(p)
  /\ run[p].pc = "list_managed"
  /\ \/ /\ LET id == ToolingScan(remote.managed, 1, NoId) IN
             run' = [run EXCEPT ![p] =
                       Goto([Logged(@, "list_environment_blueprints(managed)", OK)
                               EXCEPT !.tooling_blueprint_id = id],
                            IF id = NoId THEN "exit1"
                            ELSE "get_environment_blueprint_configuration")]
        /\ UNCHANGED fails
     \/ /\ CanFail
        /\ run' = [run EXCEPT ![p] =
                     Raise(@, "list_environment_blueprints(managed)", EDenied)]
        /\ fails' = fails + 1
  /\ UNCHANGED <<interleaved, iam, dcr, env, remote, remote0, after1>>

\* get_tooling_blueprint_config, lines 189-197: any failure yields no role ARN.
GetToolingConfig(p) ==
  /\ Active(p)
  /\ run[p].pc = "get_environment_blueprint_configuration"
  /\ \/ /\ run' = [run EXCEPT ![p] =
                     Goto([Logged(@, "get_environment_blueprint_configuration", OK)
                             EXCEPT !.manage_access_role_arn = remote.toolingRole],
                          "head_bucket")]
        /\ UNCHANGED fails
     \/ /\ CanFail
        /\ run' = [run EXCEPT ![p] =
                     Goto([Logged(@, "get_environment_blueprint_configuration", EDenied)
                             EXCEPT !.manage_access_role_arn = <<>>],
                          "head_bucket")]
        /\ fails' = fails + 1
  /\ UNCHANGED <<interleaved, iam, dcr, env, remote, remote0, after1>>

\* upload_nemo_tooling_template, lines 67-77: exit 1 when the template file is
\* missing; otherwise head_bucket, and any exception leads to create_bucket.
HeadBucket(p) ==
  /\ Active(p)
  /\ run[p].pc = "head_bucket"
  /\ \/ /\ ~env.template
        /\ run' = [run EXCEPT ![p] = Goto(@, "exit1")]
        /\ UNCHANGED fails
     \/ /\ env.template
        /\ remote.bucket
        /\ run' = [run EXCEPT ![p] = Goto(Logged(@, "head_bucket", OK), "upload_file")]
        /\ UNCHANGED fails
     \/ /\ env.template
        /\ ~remote.bucket
        /\ run' = [run EXCEPT ![p] =
                     Goto(Logged(@, "head_bucket", NotFound), "create_bucket")]
        /\ UNCHANGED fails
     \/ /\ env.template
        /\ remote.bucket
        /\ CanFail
        /\ run' = [run EXCEPT ![p] =
                     Goto(Logged(@, "head_bucket", EDenied), "create_bucket")]
        /\ fails' = fails + 1
  /\ UNCHANGED <<interleaved, iam, dcr, env, remote, remote0, after1>>

\* upload_nemo_tooling_template, lines 78-85: create_bucket is outside any try.
\* S3 answers a repeated create of one's own bucket with success in us-east-1
\* and with BucketAlreadyOwnedByYou elsewhere.
CreateBucket(p) ==
  /\ Active(p)
  /\ run[p].pc = "create_bucket"
  /\ \/ /\ ~remote.bucket \/ run[p].config.AWS_REGION = "us-east-1"
        /\ run' = [run EXCEPT ![p] = Goto(Logged(@, "create_bucket", OK), "upload_file")]
        /\ remote' = [remote EXCEPT !.bucket = TRUE]
        /\ UNCHANGED fails
     \/ /\ remote.bucket /\ run[p].config.AWS_REGION # "us-east-1"
        /\ run' = [run EXCEPT ![p] =
                     Raise(@, "create_bucket", "BucketAlreadyOwnedByYou")]
        /\ UNCHANGED <<remote, fails>>
     \/ /\ ~remote.bucket
        /\ CanFail
        /\ run' = [run EXCEPT ![p] = Raise(@, "create_bucket", EDenied)]
        /\ fails' = fails + 1
        /\ UNCHANGED remote
  /\ UNCHANGED <<interleaved, iam, dcr, env, remote0, after1>>

\* upload_nemo_tooling_template, lines 87-91.
UploadFile(p) ==
  /\ Active(p)
  /\ run[p].pc = "upload_file"
  /\ \/ /\ run' = [run EXCEPT ![p] = Goto(Logged(@, "upload_file", OK), "find_blueprint")]
        /\ remote' = [remote EXCEPT !.object = TRUE]
        /\ UNCHANGED fails
     \/ /\ CanFail
        /\ run' = [run EXCEPT ![p] = Raise(@, "upload_file", EDenied)]
        /\ fails' = fails + 1
        /\ UNCHANGED remote
  /\ UNCHANGED <<interleaved, iam, dcr, env, remote0, after1>>

(* ------------- create_or_update_nemo_tooling_blueprint ------------------ *)
\* Page numbers a listing of the items may fail at; 0 is no failure.
FailPages(items) == {0} \cup (IF CanFail THEN 1..NumPages(items) ELSE {})

\* The remote blueprint list with blueprint id replaced by the update's payload.
ReplaceBlueprint(bps, id, region) ==
  [i \in 1..Len(bps) |->
     IF bps[i].id = id
     THEN [bps[i] EXCEPT !.description = BlueprintDescription,
                         !.templateUrl = TemplateUrl(region),
                         !.userParameters = GetNemoToolingUserParameters]
     ELSE bps[i]]

HasName(items, name) == \E i \in 1..Len(items) : items[i].name = name

\* find_blueprint as called at line 126, and the branch at line 128.
FindBlueprint(p) ==
  /\ Active(p)
  /\ run[p].pc = "find_blueprint"
  /\ \E f \in FailPages(remote.bps) :
       LET res == FindPaged(remote.bps, BlueprintName, f)
           existing == IF res.found = <<>> THEN NoId ELSE res.found[1].id
       IN /\ f # 0 => res.err
          /\ run' = [run EXCEPT ![p] =
                       Goto([Logged(@, "list_environment_blueprints",
                                    IF res.err THEN EDenied ELSE OK)
                               EXCEPT !.existing_blueprint = existing],
                            IF existing # NoId THEN "update_environment_blueprint"
                            ELSE "create_environment_blueprint")]
          /\ fails' = IF res.err THEN fails + 1 ELSE fails
  /\ UNCHANGED <<interleaved, iam, dcr, env, remote, remote0, after1>>

\* Lines 129-142: update_environment_blueprint, outside any try.
UpdateBlueprint(p) ==
  /\ Active(p)
  /\ run[p].pc = "update_environment_blueprint"
  /\ \/ /\ run' = [run EXCEPT ![p] =
                     Goto([Logged(@, "update_environment_blueprint", OK)
                             EXCEPT !.blueprint_id = run[p].existing_blueprint],
                          "put_environment_blueprint_configuration")]
        /\ remote' = [remote EXCEPT !.bps =
                        ReplaceBlueprint(@, run[p].existing_blueprint,
                                         run[p].config.AWS_REGION)]
        /\ UNCHANGED fails
     \/ /\ CanFail
        /\ run' = [run EXCEPT ![p] = Raise(@, "update_environment_blueprint", EDenied)]
        /\ fails' = fails + 1
        /\ UNCHANGED remote
  /\ UNCHANGED <<interleaved, iam, dcr, env, remote0, after1>>

\* A create path that looks the name up again: when another run has registered
\* the blueprint meanwhile, its id is taken and no create call is made.
CreateBlueprintRechecking(p) ==
  /\ Active(p)
  /\ run[p].pc = "create_environment_blueprint"
  /\ \/ /\ ~HasName(remote.bps, BlueprintName)
        /\ run' = [run EXCEPT ![p] =
                     Goto([Logged(@, "create_environment_blueprint", OK)
                             EXCEPT !.blueprint_id = remote.nextId],
                          "put_environment_blueprint_configuration")]
        /\ remote' = [remote EXCEPT
                        !.bps = Append(@, DesiredBlueprint(remote.nextId,
                                                           run[p].config.AWS_REGION)),
                        !.nextId = @ + 1]
        /\ UNCHANGED fails
     \/ /\ HasName(remote.bps, BlueprintName)
        /\ run' = [run EXCEPT ![p] =
                     Goto([@ EXCEPT !.blueprint_id =
                                      FirstNamed(remote.bps, BlueprintName)[1].id],
                          "put_environment_blueprint_configuration")]
        /\ UNCHANGED <<remote, fails>>
  /\ UNCHANGED <<interleaved, iam, dcr, env, remote0, after1>>

\* Lines 144-155: create_environment_blueprint, outside any try.  The backend
\* keeps names unique and answers a second create of a name with a conflict.
CreateBlueprint(p) ==
  /\ Active(p)
  /\ run[p].pc = "create_environment_blueprint"
  /\ \/ /\ ~HasName(remote.bps, BlueprintName)
        /\ run' = [run EXCEPT ![p] =
                     Goto([Logged(@, "create_environment_blueprint", OK)
                             EXCEPT !.blueprint_id = remote.nextId],
                          "put_environment_blueprint_configuration")]
        /\ remote' = [remote EXCEPT
                        !.bps = Append(@, DesiredBlueprint(remote.nextId,
                                                           run[p].config.AWS_REGION)),
                        !.nextId = @ + 1]
        /\ UNCHANGED fails
     \/ /\ HasName(remote.bps, BlueprintName)
        /\ run' = [run EXCEPT ![p] = Raise(@, "create_environment_blueprint", EConflict)]
        /\ UNCHANGED <<remote, fails>>
     \/ /\ ~HasName(remote.bps, BlueprintName)
        /\ CanFail
        /\ run' = [run EXCEPT ![p] = Raise(@, "create_environment_blueprint", EDenied)]
        /\ fails' = fails + 1
        /\ UNCHANGED remote
  /\ UNCHANGED <<interleaved, iam, dcr, env, remote0, after1>>

\* config_params, lines 159-166.
ConfigParams(r) ==
  [environmentBlueprintIdentifier |-> r.blueprint_id,
   enabledRegions |-> <<r.config.AWS_REGION>>,
   provisioningRoleArn |-> <<"AmazonSageMakerProvisioning", AccountId>>,
   manageAccessRoleArn |-> r.manage_access_role_arn]

\* An enablement that is tried again after a failure.
PutConfigurationRetrying(p) ==
  /\ Active(p)
  /\ run[p].pc = "put_environment_blueprint_configuration"
  /\ \/ /\ run' = [run EXCEPT ![p] =
                     Goto(Logged(@, "put_environment_blueprint_configuration", OK),
                          MainStepAfter("blueprint"))]
        /\ remote' = [remote EXCEPT !.bpConfig =
                        {c \in @ : c.environmentBlueprintIdentifier # run[p].blueprint_id}
                        \cup {ConfigParams(run[p])}]
        /\ UNCHANGED fails
     \/ /\ CanFail
        /\ run' = [run EXCEPT ![p] =
                     Logged(@, "put_environment_blueprint_configuration", EDenied)]
        /\ fails' = fails + 1
        /\ UNCHANGED remote
  /\ UNCHANGED <<interleaved, iam, dcr, env, remote0, after1>>

\* Lines 168-174: put_environment_blueprint_configuration under a bare except.
PutConfiguration(p) ==
  /\ Active(p)
  /\ run[p].pc = "put_environment_blueprint_configuration"
  /\ \/ /\ run' = [run EXCEPT ![p] =
                     Goto(Logged(@, "put_environment_blueprint_configuration", OK),
                          MainStepAfter("blueprint"))]
        /\ remote' = [remote EXCEPT !.bpConfig =
                        {c \in @ : c.environmentBlueprintIdentifier # run[p].blueprint_id}
                        \cup {ConfigParams(run[p])}]
        /\ UNCHANGED fails
     \/ /\ CanFail
        /\ run' = [run EXCEPT ![p] =
                     Goto(Logged(@, "put_environment_blueprint_configuration", EDenied),
                          MainStepAfter("blueprint"))]
        /\ fails' = fails + 1
        /\ UNCHANGED remote
  /\ UNCHANGED <<interleaved, iam, dcr, env, remote0, after1>>

\* A get_domain whose failure is followed by a compensating call: the
\* enablement written in Step 2 is removed before the run ends.
GetDomainRollingBack(p) ==
  /\ Active(p)
  /\ run[p].pc = "get_domain"
  /\ \/ /\ run' = [run EXCEPT ![p] =
                     Goto([Logged(@, "get_domain", OK)
                             EXCEPT !.root_domain_unit_id = remote.domainRoot],
                          IF remote.domainRoot # NoId
                          THEN "add_policy_grant(CREATE_ENVIRONMENT_PROFILE)"
                          ELSE MainStepAfter("authorize"))]
        /\ UNCHANGED <<remote, fails>>
     \/ /\ CanFail
        /\ run' = [run EXCEPT ![p] =
                     Raise(Logged(@, "get_domain", EDenied),
                           "delete_environment_blueprint_configuration", OK)]
        /\ remote' = [remote EXCEPT !.bpConfig =
                        {c \in @ : c.environmentBlueprintIdentifier # run[p].blueprint_id}]
        /\ fails' = fails + 1
  /\ UNCHANGED <<interleaved, iam, dcr, env, remote0, after1>>

\* main, lines 444-451: get_domain, outside any try.
GetDomain(p) ==
  /\ Active(p)
  /\ run[p].pc = "get_domain"
  /\ \/ /\ run' = [run EXCEPT ![p] =
                     Goto([Logged(@, "get_domain", OK)
                             EXCEPT !.root_domain_unit_id = remote.domainRoot],
                          IF remote.domainRoot # NoId
                          THEN "add_policy_grant(CREATE_ENVIRONMENT_PROFILE)"
                          ELSE MainStepAfter("authorize"))]
        /\ UNCHANGED fails
     \/ /\ CanFail
        /\ run' = [run EXCEPT ![p] = Raise(@, "get_domain", EDenied)]
        /\ fails' = fails + 1
  /\ UNCHANGED <<interleaved, iam, dcr, env, remote, remote0, after1>>

(* ---------------- authorize_blueprint_for_domain_unit ------------------- *)
\* What the except clauses at 233-237 and 262-266 print for an error.
BlueprintGrantReport(e) ==
  IF HasConflict(e) THEN "already exists" ELSE "warning"

\* The line the function prints for a grant call: lines 231, 235, 237 (260-266).
Reported(r, report) == [r EXCEPT !.grant_reports = Append(@, report)]

\* One grant call of authorize_blueprint_for_domain_unit: every outcome is
\* printed and the function goes on.  A grant that is already there is either
\* accepted again or answered with a conflict-shaped error.
BlueprintGrant(p, policyType, next) ==
  LET call == "add_policy_grant(" \o policyType \o ")"
      g == [entity |-> run[p].blueprint_id, policyType |-> policyType]
  IN
  /\ Active(p)
  /\ run[p].pc = call
  /\ \/ /\ g \in remote.bpGrants => remote.onDuplicate = OK
        /\ run' = [run EXCEPT ![p] = Goto(Reported(Logged(@, call, OK), "added"), next)]
        /\ remote' = [remote EXCEPT !.bpGrants = @ \cup {g}]
        /\ UNCHANGED fails
     \/ /\ g \in remote.bpGrants
        /\ remote.onDuplicate # OK
        /\ run' = [run EXCEPT ![p] =
                     Goto(Reported(Logged(@, call, remote.onDuplicate),
                                   BlueprintGrantReport(remote.onDuplicate)), next)]
        /\ UNCHANGED <<remote, fails>>
     \/ /\ CanFail
        /\ run' = [run EXCEPT ![p] =
                     Goto(Reported(Logged(@, call, EDenied), BlueprintGrantReport(EDenied)),
                          next)]
        /\ fails' = fails + 1
        /\ UNCHANGED remote
  /\ UNCHANGED <<interleaved, iam, dcr, env, remote0, after1>>

\* A first grant whose failure is not caught: any error but a conflict ends
\* the function before the second grant.
GrantCreateEnvironmentProfileRaising(p) ==
  LET call == "add_policy_grant(CREATE_ENVIRONMENT_PROFILE)"
      g == [entity |-> run[p].blueprint_id, policyType |-> GrantProfile]
      next == "add_policy_grant(CREATE_ENVIRONMENT_FROM_BLUEPRINT)"
  IN
  /\ Active(p)
  /\ run[p].pc = call
  /\ \/ /\ g \in remote.bpGrants => remote.onDuplicate = OK
        /\ run' = [run EXCEPT ![p] = Goto(Reported(Logged(@, call, OK), "added"), next)]
        /\ remote' = [remote EXCEPT !.bpGrants = @ \cup {g}]
        /\ UNCHANGED fails
     \/ /\ g \in remote.bpGrants
        /\ remote.onDuplicate # OK
        /\ run' = [run EXCEPT ![p] =
                     IF HasConflict(remote.onDuplicate)
                     THEN Goto(Reported(Logged(@, call, remote.onDuplicate),
                                        "already exists"), next)
                     ELSE Goto(Logged(@, call, remote.onDuplicate),
                               MainStepAfter("authorize"))]
        /\ UNCHANGED <<remote, fails>>
     \/ /\ CanFail
        /\ run' = [run EXCEPT ![p] =
                     Goto(Logged(@, call, EDenied), MainStepAfter("authorize"))]
        /\ fails' = fails + 1
        /\ UNCHANGED remote
  /\ UNCHANGED <<interleaved, iam, dcr, env, remote0, after1>>

\* Lines 208-237.
GrantCreateEnvironmentProfile(p) ==
  BlueprintGrant(p, GrantProfile, "add_policy_grant(CREATE_ENVIRONMENT_FROM_BLUEPRINT)")

\* Lines 239-266.
GrantCreateEnvironmentFromBlueprint(p) ==
  BlueprintGrant(p, GrantFromBlueprint, MainStepAfter("authorize"))

(* ------------------- create_or_update_project_profile ------------------- *)
\* The two configs listed the other way round.
DesiredConfigsSwapped(tooling_blueprint_id, nemo_tooling_blueprint_id) ==
  <<EnvConfig(nemo_tooling_blueprint_id, "NeMo Tooling", 1, NoId),
    EnvConfig(tooling_blueprint_id, "Tooling", 0, NoId)>>

\* The two configs with the deployment order left at its default.
DesiredConfigsUnordered(tooling_blueprint_id, nemo_tooling_blueprint_id) ==
  <<EnvConfig(tooling_blueprint_id, "Tooling", 0, NoId),
    EnvConfig(nemo_tooling_blueprint_id, "NeMo Tooling", 0, NoId)>>

\* Lines 272-293: the desired configs, Tooling (order 0) then NeMo-Tooling (order 1).
DesiredConfigs(tooling_blueprint_id, nemo_tooling_blueprint_id) ==
  <<EnvConfig(tooling_blueprint_id, "Tooling", 0, NoId),
    EnvConfig(nemo_tooling_blueprint_id, "NeMo Tooling", 1, NoId)>>

\* An update that merges: the existing configs of other blueprints are kept
\* behind the desired two.
PreserveIdsKeepingOthers(existing_configs, i, cfgs) ==
  cfgs \o SelectSeq(existing_configs,
                    LAMBDA ec : /\ ec.environmentBlueprintId # cfgs[1].environmentBlueprintId
                                /\ ec.environmentBlueprintId # cfgs[2].environmentBlueprintId)

\* An update that copies the ids by position in the list, not by blueprint.
PreserveIdsByPosition(existing_configs, i, cfgs) ==
  [k \in 1..Len(cfgs) |->
     IF k <= Len(existing_configs) /\ existing_configs[k].id # NoId
     THEN [cfgs[k] EXCEPT !.id = existing_configs[k].id]
     ELSE cfgs[k]]

\* An update that sends the desired configs without looking at the existing ones.
PreserveIdsSkipped(existing_configs, i, cfgs) == cfgs

\* Lines 305-312: the loop over the existing configs; a later match overwrites
\* an earlier one, and a config of the Tooling blueprint is never tried as NeMo's.
RECURSIVE PreserveIds(_, _, _)
PreserveIds(existing_configs, i, cfgs) ==
  IF i > Len(existing_configs) THEN cfgs
  ELSE LET ec == existing_configs[i]
           bp_id == ec.environmentBlueprintId
           ec_id == ec.id
       IN PreserveIds(existing_configs, i + 1,
            IF bp_id = cfgs[1].environmentBlueprintId /\ ec_id # NoId
            THEN [cfgs EXCEPT ![1].id = ec_id]
            ELSE IF bp_id = cfgs[2].environmentBlueprintId /\ ec_id # NoId
            THEN [cfgs EXCEPT ![2].id = ec_id]
            ELSE cfgs)

\* The backend gives every config that arrives without an id a fresh one.
NewBefore(cfgs, i) == Cardinality({j \in 1..(i - 1) : cfgs[j].id = NoId})
AssignIds(cfgs, next) ==
  [i \in 1..Len(cfgs) |->
     IF cfgs[i].id = NoId THEN [cfgs[i] EXCEPT !.id = next + NewBefore(cfgs, i)]
     ELSE cfgs[i]]

ProfileById(profiles, id) ==
  LET hits == SelectSeq(profiles, LAMBDA x : x.id = id)
  IN IF Len(hits) = 0 THEN <<>> ELSE <<hits[1]>>

\* find_project_profile as called at line 270, the configs of 272-293 and the
\* branch at line 295.
FindProfile(p) ==
  /\ Active(p)
  /\ run[p].pc = "find_project_profile"
  /\ \E f \in FailPages(remote.profiles) :
       LET res == FindPaged(remote.profiles, run[p].config.PROJECT_PROFILE_NAME, f)
           existing == IF res.found = <<>> THEN NoId ELSE res.found[1].id
       IN /\ f # 0 => res.err
          /\ run' = [run EXCEPT ![p] =
                       Goto([Logged(@, "list_project_profiles",
                                    IF res.err THEN EDenied ELSE OK)
                               EXCEPT !.existing_profile = existing,
                                      !.environment_configs =
                                         DesiredConfigs(run[p].tooling_blueprint_id,
                                                        run[p].blueprint_id)],
                            IF existing # NoId THEN "get_project_profile"
                            ELSE "create_project_profile")]
          /\ fails' = IF res.err THEN fails + 1 ELSE fails
  /\ UNCHANGED <<interleaved, iam, dcr, env, remote, remote0, after1>>

\* Lines 296-314: get_project_profile inside a try; a failure leaves the
\* desired configs without ids.
GetProfileDetails(p) ==
  /\ Active(p)
  /\ run[p].pc = "get_project_profile"
  /\ \/ /\ LET details == ProfileById(remote.profiles, run[p].existing_profile)[1] IN
             run' = [run EXCEPT ![p] =
                       Goto([Logged(@, "get_project_profile", OK)
                               EXCEPT !.environment_configs =
                                         PreserveIds(details.environmentConfigurations,
                                                     1, @)],
                            "update_project_profile")]
        /\ UNCHANGED fails
     \/ /\ CanFail
        /\ run' = [run EXCEPT ![p] =
                     Goto(Logged(@, "get_project_profile", EDenied),
                          "update_project_profile")]
        /\ fails' = fails + 1
  /\ UNCHANGED <<interleaved, iam, dcr, env, remote, remote0, after1>>

ReplaceProfile(profiles, id, cfgs, next) ==
  [i \in 1..Len(profiles) |->
     IF profiles[i].id = id
     THEN [profiles[i] EXCEPT !.description = ProfileDescription,
                              !.environmentConfigurations = AssignIds(cfgs, next)]
     ELSE profiles[i]]

\* Lines 316-324: update_project_profile, outside any try.
UpdateProfile(p) ==
  /\ Active(p)
  /\ run[p].pc = "update_project_profile"
  /\ \/ /\ run' = [run EXCEPT ![p] =
                     Goto([Logged(@, "update_project_profile", OK)
                             EXCEPT !.profile_id = run[p].existing_profile],
                          MainStepAfter("profile"))]
        /\ remote' = [remote EXCEPT
                        !.profiles = ReplaceProfile(@, run[p].existing_profile,
                                                    run[p].environment_configs,
                                                    remote.nextId),
                        !.nextId = @ + NewBefore(run[p].environment_configs, 3)]
        /\ UNCHANGED fails
     \/ /\ CanFail
        /\ run' = [run EXCEPT ![p] = Raise(@, "update_project_profile", EDenied)]
        /\ fails' = fails + 1
        /\ UNCHANGED remote
  /\ UNCHANGED <<interleaved, iam, dcr, env, remote0, after1>>

\* Lines 325-336: create_project_profile, outside any try.
CreateProfile(p) ==
  LET name == run[p].config.PROJECT_PROFILE_NAME IN
  /\ Active(p)
  /\ run[p].pc = "create_project_profile"
  /\ \/ /\ ~HasName(remote.profiles, name)
        /\ run' = [run EXCEPT ![p] =
                     Goto([Logged(@, "create_project_profile", OK)
                             EXCEPT !.profile_id = remote.nextId],
                          MainStepAfter("profile"))]
        /\ remote' = [remote EXCEPT
                        !.profiles =
                           Append(@, [id |-> remote.nextId, name |-> name,
                                      description |-> ProfileDescription,
                                      domainUnitId |-> RootUnit,
                                      environmentConfigurations |->
                                        AssignIds(run[p].environment_configs,
                                                  remote.nextId + 1)]),
                        !.nextId = @ + 1 + NewBefore(run[p].environment_configs, 3)]
        /\ UNCHANGED fails
     \/ /\ HasName(remote.profiles, name)
        /\ run' = [run EXCEPT ![p] = Raise(@, "create_project_profile", EConflict)]
        /\ UNCHANGED <<remote, fails>>
     \/ /\ ~HasName(remote.profiles, name)
        /\ CanFail
        /\ run' = [run EXCEPT ![p] = Raise(@, "create_project_profile", EDenied)]
        /\ fails' = fails + 1
        /\ UNCHANGED remote
  /\ UNCHANGED <<interleaved, iam, dcr, env, remote0, after1>>

(* -------------------------- authorize_all_users ------------------------- *)
\* An authorize_all_users that goes on to the grants without a domain unit.
AuthGetProfileProceeding(p) ==
  /\ Active(p)
  /\ run[p].pc = "auth.get_project_profile"
  /\ \/ /\ LET profile == ProfileById(remote.profiles, run[p].profile_id)[1] IN
             run' = [run EXCEPT ![p] =
                       Goto([Logged(@, "get_project_profile", OK)
                               EXCEPT !.domain_unit_id = profile.domainUnitId],
                            "list_policy_grants")]
        /\ UNCHANGED fails
     \/ /\ CanFail
        /\ run' = [run EXCEPT ![p] =
                     Goto(Logged(@, "get_project_profile", EDenied), "list_policy_grants")]
        /\ fails' = fails + 1
  /\ UNCHANGED <<interleaved, iam, dcr, env, remote, remote0, after1>>

\* Lines 342-351: the profile's domain unit; without one, or on any error,
\* the function returns and main prints 'Setup complete'.
AuthGetProfile(p) ==
  /\ Active(p)
  /\ run[p].pc = "auth.get_project_profile"
  /\ \/ /\ LET profile == ProfileById(remote.profiles, run[p].profile_id)[1] IN
             run' = [run EXCEPT ![p] =
                       Goto([Logged(@, "get_project_profile", OK)
                               EXCEPT !.domain_unit_id = profile.domainUnitId,
                                      !.auth_report =
                                         IF profile.domainUnitId = NoId
                                         THEN "Warning: No domain unit ID found on profile"
                                         ELSE @],
                            IF profile.domainUnitId = NoId THEN "complete"
                            ELSE "list_policy_grants")]
        /\ UNCHANGED fails
     \/ /\ CanFail
        /\ run' = [run EXCEPT ![p] =
                     Goto([Logged(@, "get_project_profile", EDenied)
                             EXCEPT !.auth_report = "Warning: Could not get profile details"],
                          "complete")]
        /\ fails' = fails + 1
  /\ UNCHANGED <<interleaved, iam, dcr, env, remote, remote0, after1>>

\* list_policy_grants(entityIdentifier=domain_unit_id, ...): the grants of the unit.
GrantList(grants, du) == {g \in grants : g.domainUnit = du}

\* Lines 362-366: the profiles of the unit's all-users grants.
ExistingProfiles(grantList) ==
  UNION {g.projectProfiles : g \in {h \in grantList : h.principal = AllUsers}}

\* Line 367: some all-users grant already names the profile.
AlreadyAuthorized(grantList, profile_id) ==
  \E g \in grantList : g.principal = AllUsers /\ profile_id \in g.projectProfiles

\* Lines 353-371: list_policy_grants inside a try; a failure leaves
\* existing_profiles empty and the function goes on to the grant call.
AuthListGrants(p) ==
  /\ Active(p)
  /\ run[p].pc = "list_policy_grants"
  /\ \/ /\ LET grantList == GrantList(remote.grants, run[p].domain_unit_id)
               found == AlreadyAuthorized(grantList, run[p].profile_id)
           IN run' = [run EXCEPT ![p] =
                        Goto([Logged(@, "list_policy_grants", OK)
                                EXCEPT !.existing_profiles =
                                          IF found THEN @ ELSE ExistingProfiles(grantList),
                                       !.auth_report =
                                          IF found THEN "Authorization already exists"
                                          ELSE @],
                             IF found THEN "complete"
                             ELSE "add_policy_grant(CREATE_PROJECT_FROM_PROJECT_PROFILE)")]
        /\ UNCHANGED fails
     \/ /\ CanFail
        /\ run' = [run EXCEPT ![p] =
                     Goto(Logged(@, "list_policy_grants", EDenied),
                          "add_policy_grant(CREATE_PROJECT_FROM_PROJECT_PROFILE)")]
        /\ fails' = fails + 1
  /\ UNCHANGED <<interleaved, iam, dcr, env, remote, remote0, after1>>

\* Line 374: all_profiles.
AllProfiles(existing_profiles, profile_id) == existing_profiles \cup {profile_id}

\* What the except clause at 395-399 prints for an error.
AllUsersGrantReport(e) ==
  IF HasAlreadyExists(e) \/ HasConflict(e) THEN "Authorization already exists"
  ELSE "Warning: Could not add authorization"

\* The backend holds one grant per (unit, principal): a new grant for a
\* principal replaces the detail of the one that is there.
PutGrant(grants, g) ==
  {h \in grants : ~(h.domainUnit = g.domainUnit /\ h.principal = g.principal)} \cup {g}

\* Lines 373-399: the all-users grant call; every outcome is printed and the
\* function returns.
AuthAddGrant(p) ==
  LET call == "add_policy_grant(CREATE_PROJECT_FROM_PROJECT_PROFILE)"
      payload == AllProfiles(run[p].existing_profiles, run[p].profile_id)
      g == Grant(run[p].domain_unit_id, AllUsers, payload)
      held == \E h \in remote.grants :
                 h.domainUnit = g.domainUnit /\ h.principal = AllUsers
  IN
  /\ Active(p)
  /\ run[p].pc = call
  /\ \/ /\ held => remote.onDuplicate = OK
        /\ run' = [run EXCEPT ![p] =
                     Goto([Logged(@, call, OK)
                             EXCEPT !.all_profiles = payload,
                                    !.auth_report = "All users authorized"],
                          "complete")]
        /\ remote' = [remote EXCEPT !.grants = PutGrant(@, g)]
        /\ UNCHANGED fails
     \/ /\ held
        /\ remote.onDuplicate # OK
        /\ run' = [run EXCEPT ![p] =
                     Goto([Logged(@, call, remote.onDuplicate)
                             EXCEPT !.all_profiles = payload,
                                    !.auth_report = AllUsersGrantReport(remote.onDuplicate)],
                          "complete")]
        /\ UNCHANGED <<remote, fails>>
     \/ /\ CanFail
        /\ run' = [run EXCEPT ![p] =
                     Goto([Logged(@, call, EDenied)
                             EXCEPT !.all_profiles = payload,
                                    !.auth_report = AllUsersGrantReport(EDenied)],
                          "complete")]
        /\ fails' = fails + 1
        /\ UNCHANGED remote
  /\ UNCHANGED <<interleaved, iam, dcr, env, remote0, after1>>

(* --------------------------- specification ------------------------------ *)
Next ==
  \E p \in Runs :
    \/ GetConfigStep(p)
    \/ CallerIdentity(p)
    \/ FindTooling(p)
    \/ GetToolingConfig(p)
    \/ HeadBucket(p)
    \/ CreateBucket(p)
    \/ UploadFile(p)
    \/ FindBlueprint(p)
    \/ UpdateBlueprint(p)
    \/ CreateBlueprint(p)
    \/ PutConfiguration(p)
    \/ GetDomain(p)
    \/ GrantCreateEnvironmentProfile(p)
    \/ GrantCreateEnvironmentFromBlueprint(p)
    \/ FindProfile(p)
    \/ GetProfileDetails(p)
    \/ UpdateProfile(p)
    \/ CreateProfile(p)
    \/ AuthGetProfile(p)
    \/ AuthListGrants(p)
    \/ AuthAddGrant(p)

Spec == Init /\ [][Next]_vars

\* Every remote call returns, with a result or an error: a run that can take
\* a step takes one.
FairSpec == Spec /\ WF_vars(Next)

(* ------------------- two operators running the script ------------------- *)
\* Two runs of setup-blueprint.py started at once against one domain: nothing
\* in the script orders the remote calls of one run against the other's.
InitRace ==
  /\ \E region \in Regions, domainRoot \in {NoId, RootUnit}, bucket \in BOOLEAN :
       /\ env = Env(region, "dzd_1", TRUE)
       /\ remote = Remote(<<ManagedDataLake, ManagedTooling>>, TRUE, <<>>, FALSE, <<>>, {},
                          domainRoot, bucket)
  /\ run = [p \in Runs |-> NewRun]
  /\ fails = 0
  /\ remote0 = remote
  /\ after1 = remote
  /\ interleaved = TRUE
  /\ iam = NoRole
  /\ dcr = [p \in Runs |-> IdleRoleRun]

SpecRace == InitRace /\ [][Next]_vars

(* ------------- setup_domain_connection_role.py: the actions ------------- *)
\* The second script's run p may take a step; the rerun follows the first run.
RoleActive(p) ==
  /\ dcr[p].pc \notin RoleTerminal
  /\ p = 2 => dcr[1].pc \in RoleTerminal

\* `return code` of main, and an exception no handler catches.
RoleReturn(r, code) == [r EXCEPT !.pc = "return", !.exit_code = <<code>>]
RoleRaise(r, call, e) == Goto(Logged(r, call, e), "raised")

\* A check of DOMAIN_ID that only notices the unset variable.
DomainIdMissingUnsetOnly(e) == e.DOMAIN_ID = Unset

\* main, lines 121-122: `not domain_id` holds of None and of the empty string.
DomainIdMissing(e) == e.DOMAIN_ID \in {Unset, ""}

\* main, lines 121-127: DOMAIN_ID is read and checked, then the clients are built.
RoleMain(p) ==
  /\ RoleActive(p)
  /\ dcr[p].pc = "main"
  /\ dcr' = [dcr EXCEPT ![p] =
               IF DomainIdMissing(env)
               THEN RoleReturn(@, 1)
               ELSE Goto([@ EXCEPT !.domain_id = env.DOMAIN_ID, !.clients = TRUE],
                         "get_caller_identity")]
  /\ UNCHANGED <<interleaved, iam, env, remote, run, fails, remote0, after1>>

\* get_account_id, lines 22-23 (main, line 128).
RoleCallerIdentity(p) ==
  /\ RoleActive(p)
  /\ dcr[p].pc = "get_caller_identity"
  /\ \/ /\ dcr' = [dcr EXCEPT ![p] =
                     Goto([Logged(@, "get_caller_identity", OK)
                             EXCEPT !.account_id = AccountId], "create_role")]
        /\ UNCHANGED fails
     \/ /\ CanFail
        /\ dcr' = [dcr EXCEPT ![p] = RoleRaise(@, "get_caller_identity", EDenied)]
        /\ fails' = fails + 1
  /\ UNCHANGED <<interleaved, iam, env, remote, run, remote0, after1>>

\* create_role, line 55: the one error code the handler takes for "already there".
RoleAlreadyExists(e) == ErrorCode(e) = "EntityAlreadyExists"

\* A create_role that takes the existing role as it is.
CreateRoleKeepingTrust(p) ==
  /\ RoleActive(p)
  /\ dcr[p].pc = "create_role"
  /\ \/ /\ iam.role = <<>>
        /\ iam' = [iam EXCEPT !.role =
                     <<Role(TrustPolicy(dcr[p].account_id, dcr[p].domain_id), <<>>, FALSE)>>]
        /\ dcr' = [dcr EXCEPT ![p] =
                     Goto([Logged(@, "create_role", OK) EXCEPT !.role_arn = RoleArn],
                          "put_role_policy")]
        /\ UNCHANGED fails
     \/ /\ iam.role # <<>>
        /\ dcr' = [dcr EXCEPT ![p] = Goto(Logged(@, "create_role", EEntityExists), "get_role")]
        /\ UNCHANGED <<iam, fails>>
     \/ /\ CanFail
        /\ dcr' = [dcr EXCEPT ![p] = RoleRaise(@, "create_role", EDenied)]
        /\ fails' = fails + 1
        /\ UNCHANGED iam
  /\ UNCHANGED <<interleaved, env, remote, run, remote0, after1>>

\* create_role, lines 46-59: iam.create_role; EntityAlreadyExists leads to the
\* update of the trust policy, any other error is raised again.
CreateRole(p) ==
  /\ RoleActive(p)
  /\ dcr[p].pc = "create_role"
  /\ \/ /\ iam.role = <<>>
        /\ iam' = [iam EXCEPT !.role =
                     <<Role(TrustPolicy(dcr[p].account_id, dcr[p].domain_id), <<>>, FALSE)>>]
        /\ dcr' = [dcr EXCEPT ![p] =
                     Goto([Logged(@, "create_role", OK) EXCEPT !.role_arn = RoleArn],
                          "put_role_policy")]
        /\ UNCHANGED fails
     \/ /\ iam.role # <<>>
        /\ dcr' = [dcr EXCEPT ![p] =
                     IF RoleAlreadyExists(EEntityExists)
                     THEN Goto(Logged(@, "create_role", EEntityExists),
                               "update_assume_role_policy")
                     ELSE RoleRaise(@, "create_role", EEntityExists)]
        /\ UNCHANGED <<iam, fails>>
     \/ /\ CanFail
        /\ dcr' = [dcr EXCEPT ![p] =
                     IF RoleAlreadyExists(EDenied)
                     THEN Goto(Logged(@, "create_role", EDenied), "update_assume_role_policy")
                     ELSE RoleRaise(@, "create_role", EDenied)]
        /\ fails' = fails + 1
        /\ UNCHANGED iam
  /\ UNCHANGED <<interleaved, env, remote, run, remote0, after1>>

\* create_role, line 57: the trust policy of the existing role is replaced.
UpdateAssumeRolePolicy(p) ==
  /\ RoleActive(p)
  /\ dcr[p].pc = "update_assume_role_policy"
  /\ \/ /\ iam.role # <<>>
        /\ iam' = [iam EXCEPT !.role =
                     <<[@[1] EXCEPT !.trust =
                          TrustPolicy(dcr[p].account_id, dcr[p].domain_id)]>>]
        /\ dcr' = [dcr EXCEPT ![p] =
                     Goto(Logged(@, "update_assume_role_policy", OK), "get_role")]
        /\ UNCHANGED fails
     \/ /\ CanFail
        /\ dcr' = [dcr EXCEPT ![p] = RoleRaise(@, "update_assume_role_policy", EDenied)]
        /\ fails' = fails + 1
        /\ UNCHANGED iam
  /\ UNCHANGED <<interleaved, env, remote, run, remote0, after1>>

\* create_role, line 58: the ARN of the existing role.
GetRole(p) ==
  /\ RoleActive(p)
  /\ dcr[p].pc = "get_role"
  /\ \/ /\ iam.role # <<>>
        /\ dcr' = [dcr EXCEPT ![p] =
                     Goto([Logged(@, "get_role", OK) EXCEPT !.role_arn = RoleArn],
                          "put_role_policy")]
        /\ UNCHANGED fails
     \/ /\ CanFail
        /\ dcr' = [dcr EXCEPT ![p] = RoleRaise(@, "get_role", EDenied)]
        /\ fails' = fails + 1
  /\ UNCHANGED <<interleaved, iam, env, remote, run, remote0, after1>>

\* attach_policy, lines 61-97: put_role_policy replaces the inline policy of
\* that name; the call is in no try.
PutRolePolicy(p) ==
  /\ RoleActive(p)
  /\ dcr[p].pc = "put_role_policy"
  /\ \/ /\ iam.role # <<>>
        /\ iam' = [iam EXCEPT !.role =
                     <<[@[1] EXCEPT !.policy =
                          <<PolicyDoc(dcr[p].account_id, dcr[p].domain_id)>>]>>]
        /\ dcr' = [dcr EXCEPT ![p] = Goto(Logged(@, "put_role_policy", OK), "get_domain")]
        /\ UNCHANGED fails
     \/ /\ CanFail
        /\ dcr' = [dcr EXCEPT ![p] = RoleRaise(@, "put_role_policy", EDenied)]
        /\ fails' = fails + 1
        /\ UNCHANGED iam
  /\ UNCHANGED <<interleaved, env, remote, run, remote0, after1>>

\* main, line 134: the root domain unit of the domain.
RoleGetDomain(p) ==
  /\ RoleActive(p)
  /\ dcr[p].pc = "get_domain"
  /\ \/ /\ dcr' = [dcr EXCEPT ![p] =
                     Goto([Logged(@, "get_domain", OK)
                             EXCEPT !.root_unit_id = iam.domainRoot], "create_user_profile")]
        /\ UNCHANGED fails
     \/ /\ CanFail
        /\ dcr' = [dcr EXCEPT ![p] = RoleRaise(@, "get_domain", EDenied)]
        /\ fails' = fails + 1
  /\ UNCHANGED <<interleaved, iam, env, remote, run, remote0, after1>>

\* create_user_profile, line 105: the errors taken for "already registered".
UserProfileExists(e) ==
  HasExisting(e) \/ ErrorCode(e) \in {"ConflictException", "ValidationException"}

\* What create_user_profile does with an error of its call, lines 104-108.
AfterUserProfileError(r, e) ==
  IF UserProfileExists(e)
  THEN Goto(Logged(r, "create_user_profile", e), "get_user_profile")
  ELSE RoleRaise(r, "create_user_profile", e)

\* create_user_profile, lines 99-108.
CreateUserProfile(p) ==
  /\ RoleActive(p)
  /\ dcr[p].pc = "create_user_profile"
  /\ \/ /\ dcr[p].role_arn \notin iam.userProfiles
        /\ iam' = [iam EXCEPT !.userProfiles = @ \cup {dcr[p].role_arn}]
        /\ dcr' = [dcr EXCEPT ![p] =
                     Goto(Logged(@, "create_user_profile", OK), "add_entity_owner")]
        /\ UNCHANGED fails
     \/ /\ dcr[p].role_arn \in iam.userProfiles
        /\ dcr' = [dcr EXCEPT ![p] = AfterUserProfileError(@, iam.profileDuplicate)]
        /\ UNCHANGED <<iam, fails>>
     \/ /\ CanFail
        /\ \E e \in {EDenied, EValidation} :
             dcr' = [dcr EXCEPT ![p] = AfterUserProfileError(@, e)]
        /\ fails' = fails + 1
        /\ UNCHANGED iam
  /\ UNCHANGED <<interleaved, env, remote, run, remote0, after1>>

\* create_user_profile, line 107: the profile is read back, in no try.
GetUserProfile(p) ==
  /\ RoleActive(p)
  /\ dcr[p].pc = "get_user_profile"
  /\ \/ /\ dcr[p].role_arn \in iam.userProfiles
        /\ dcr' = [dcr EXCEPT ![p] =
                     Goto(Logged(@, "get_user_profile", OK), "add_entity_owner")]
        /\ UNCHANGED fails
     \/ /\ dcr[p].role_arn \notin iam.userProfiles
        /\ dcr' = [dcr EXCEPT ![p] = RoleRaise(@, "get_user_profile", EResourceNotFound)]
        /\ UNCHANGED fails
     \/ /\ CanFail
        /\ dcr' = [dcr EXCEPT ![p] = RoleRaise(@, "get_user_profile", EDenied)]
        /\ fails' = fails + 1
  /\ UNCHANGED <<interleaved, iam, env, remote, run, remote0, after1>>

\* add_as_domain_owner, line 115: the errors taken for "already an owner".
AlreadyOwner(e) == ErrorCode(e) = "ValidationException" /\ HasAlreadyExists(e)

\* What add_as_domain_owner does with an error of its call, lines 114-118;
\* main then returns 0 (lines 140-141).
AfterOwnerError(r, e) ==
  IF AlreadyOwner(e)
  THEN RoleReturn(Logged(r, "add_entity_owner", e), 0)
  ELSE RoleRaise(r, "add_entity_owner", e)

\* add_as_domain_owner, lines 110-118, and the end of main.
AddEntityOwner(p) ==
  /\ RoleActive(p)
  /\ dcr[p].pc = "add_entity_owner"
  /\ \/ /\ dcr[p].role_arn \in iam.owners => iam.ownerDuplicate = OK
        /\ iam' = [iam EXCEPT !.owners = @ \cup {dcr[p].role_arn}]
        /\ dcr' = [dcr EXCEPT ![p] = RoleReturn(Logged(@, "add_entity_owner", OK), 0)]
        /\ UNCHANGED fails
     \/ /\ dcr[p].role_arn \in iam.owners
        /\ iam.ownerDuplicate # OK
        /\ dcr' = [dcr EXCEPT ![p] = AfterOwnerError(@, iam.ownerDuplicate)]
        /\ UNCHANGED <<iam, fails>>
     \/ /\ CanFail
        /\ \E e \in {EDenied, EValidation} :
             dcr' = [dcr EXCEPT ![p] = AfterOwnerError(@, e)]
        /\ fails' = fails + 1
        /\ UNCHANGED iam
  /\ UNCHANGED <<interleaved, env, remote, run, remote0, after1>>

\* The states the second script may start in: DOMAIN_ID unset, empty or set,
\* and the account with or without the role, the registration and the ownership.
InitRole ==
  /\ \E domain \in {Unset, "", "dzd_1"}, role \in InitRoles,
        members \in {<<{}, {}>>, <<{RoleArn}, {}>>, <<{RoleArn}, {RoleArn}>>},
        profileDuplicate \in {EConflict, EExists, EExistingProfile},
        ownerDuplicate \in {OK, EConflict, EExists} :
       /\ env = Env("us-east-1", domain, TRUE)
       /\ iam = Account(role, members[1], members[2], profileDuplicate, ownerDuplicate)
  /\ dcr = [p \in Runs |-> NewRoleRun]
  /\ fails = 0
  /\ interleaved = FALSE
  /\ remote = Remote(<<ManagedTooling>>, TRUE, <<>>, FALSE, <<>>, {}, RootUnit, TRUE)
  /\ run = [p \in Runs |-> [NewRun EXCEPT !.pc = "complete"]]
  /\ remote0 = remote
  /\ after1 = remote

NextRole ==
  \E p \in Runs :
    \/ RoleMain(p)
    \/ RoleCallerIdentity(p)
    \/ CreateRole(p)
    \/ UpdateAssumeRolePolicy(p)
    \/ GetRole(p)
    \/ PutRolePolicy(p)
    \/ RoleGetDomain(p)
    \/ CreateUserProfile(p)
    \/ GetUserProfile(p)
    \/ AddEntityOwner(p)

SpecRole == InitRole /\ [][NextRole]_vars

(* ------------------------------- claims --------------------------------- *)
Range(seq) == {seq[i] : i \in 1..Len(seq)}
Calls(r, call) == Cardinality({i \in 1..Len(r.log) : r.log[i][1] = call})
CallsIn(r, calls) == Cardinality({i \in 1..Len(r.log) : r.log[i][1] \in calls})
\* No remote call of the run raised (a missing bucket is head_bucket's answer).
NoFailure(r) == \A i \in 1..Len(r.log) : r.log[i][2] \in {OK, NotFound}
CreateCalls == {"create_environment_blueprint", "create_project_profile"}
UpdateCalls == {"update_environment_blueprint", "update_project_profile"}
AllUsersGrantCall == "add_policy_grant(CREATE_PROJECT_FROM_PROJECT_PROFILE)"
GrantCalls ==
  {"add_policy_grant(CREATE_ENVIRONMENT_PROFILE)",
   "add_policy_grant(CREATE_ENVIRONMENT_FROM_BLUEPRINT)", AllUsersGrantCall}
MutatingCalls ==
  CreateCalls \cup UpdateCalls \cup GrantCalls
    \cup {"put_environment_blueprint_configuration"}
ConflictShaped(e) == HasConflict(e) \/ HasAlreadyExists(e)
EmptyOrUnset(v) == v = Unset \/ v = ""

\* The remote resource sets: blueprints, profiles with their configs and ids, grants.
Resources(rem) ==
  [blueprints |-> Range(rem.bps), profiles |-> Range(rem.profiles),
   configurations |-> rem.bpConfig, blueprintGrants |-> rem.bpGrants,
   grants |-> rem.grants]

\* C1: when no remote call fails in either of two consecutive runs with the same
\* input, the remote resources after the second run (blueprints, profiles with
\* their configs and ids, grants) are those left by the first run.
C1_Idempotent ==
  (run[2].pc \in Terminal /\ NoFailure(run[1]) /\ NoFailure(run[2]))
    => Resources(remote) = Resources(after1)

\* A rerun that completes after a first run that created both resources.
C1_Witness ==
  /\ run[2].pc = "complete"
  /\ NoFailure(run[1]) /\ NoFailure(run[2])
  /\ Calls(run[1], "create_project_profile") = 1
  /\ Calls(run[2], "update_project_profile") = 1
  /\ Resources(remote) # Resources(remote0)

\* The domain has the managed Tooling blueprint, no NeMo-Tooling blueprint and
\* no profile of the configured name; the local configuration is complete.
FreshDomain ==
  /\ HasName(remote0.managed, "Tooling")
  /\ ~HasName(remote0.bps, BlueprintName)
  /\ ~HasName(remote0.profiles, DefaultProfileName)
  /\ ~EmptyOrUnset(env.AWS_REGION) /\ ~EmptyOrUnset(env.DOMAIN_ID) /\ env.template

\* C2: from a domain with Tooling but neither NeMo-Tooling nor the profile, and
\* with no call failing, the first run issues create_environment_blueprint and
\* create_project_profile (two configs, Tooling at order 0 then NeMo-Tooling at
\* order 1); the rerun issues exactly the two update calls, no create call, and
\* returns the profile id of the first run.
C2_Rerun ==
  FreshDomain =>
    /\ (run[1].pc \in Terminal /\ NoFailure(run[1])) =>
         /\ run[1].pc = "complete"
         /\ Calls(run[1], "create_environment_blueprint") = 1
         /\ Calls(run[1], "create_project_profile") = 1
         /\ CallsIn(run[1], UpdateCalls) = 0
         /\ Len(run[1].environment_configs) = 2
         /\ run[1].environment_configs[1].environmentBlueprintId = ToolingId
         /\ run[1].environment_configs[1].deploymentOrder = 0
         /\ run[1].environment_configs[2].environmentBlueprintId = run[1].blueprint_id
         /\ run[1].environment_configs[2].deploymentOrder = 1
    /\ (run[2].pc \in Terminal /\ NoFailure(run[1]) /\ NoFailure(run[2])) =>
         /\ run[2].pc = "complete"
         /\ Calls(run[2], "update_environment_blueprint") = 1
         /\ Calls(run[2], "update_project_profile") = 1
         /\ CallsIn(run[2], UpdateCalls) = 2
         /\ CallsIn(run[2], CreateCalls) = 0
         /\ run[2].profile_id = run[1].profile_id
         /\ run[2].profile_id # NoId

C2_Witness ==
  /\ FreshDomain
  /\ run[2].pc = "complete"
  /\ NoFailure(run[1]) /\ NoFailure(run[2])
  /\ CallsIn(run[2], UpdateCalls) = 2

\* The configs of the profile the run is about to update, as the backend holds them.
ExistingConfigs(p) ==
  LET hit == ProfileById(remote.profiles, run[p].existing_profile)
  IN IF hit = <<>> THEN {} ELSE Range(hit[1].environmentConfigurations)

\* C3: whenever a run sends update_project_profile, each desired config whose
\* blueprint id matches an existing remote config that has an id carries that id.
C3_IdentityPreserved ==
  \A p \in Runs :
    run[p].pc = "update_project_profile" =>
      \A i \in 1..Len(run[p].environment_configs) :
        \A ec \in ExistingConfigs(p) :
          (ec.environmentBlueprintId = run[p].environment_configs[i].environmentBlueprintId
             /\ ec.id # NoId)
            => run[p].environment_configs[i].id = ec.id

\* C4: every all-users grant call carries every profile id that the existing
\* all-users grants of the unit hold when it is issued.
C4_GrantsOnlyGrow ==
  \A p \in Runs :
    run[p].pc = AllUsersGrantCall =>
      ExistingProfiles(GrantList(remote.grants, run[p].domain_unit_id))
        \subseteq AllProfiles(run[p].existing_profiles, run[p].profile_id)

\* C5: with an all-users grant on the profile's unit that does not hold the
\* desired profile id, authorize_all_users issues one grant call whose
\* projectProfiles are exactly the held ids and the desired id.
C5_GrantUnion ==
  \A p \in Runs :
    LET held == ExistingProfiles(GrantList(remote.grants, run[p].domain_unit_id)) IN
    (run[p].pc = AllUsersGrantCall /\ held # {} /\ run[p].profile_id \notin held)
      => AllProfiles(run[p].existing_profiles, run[p].profile_id)
           = held \cup {run[p].profile_id}

\* C6: when an existing all-users grant of the unit already holds the desired
\* profile id, authorize_all_users does not go on to add_policy_grant.
C6_ShortCircuit ==
  \A p \in Runs :
    run[p].pc = AllUsersGrantCall =>
      ~AlreadyAuthorized(GrantList(remote.grants, run[p].domain_unit_id),
                         run[p].profile_id)

\* C7: a run in which a create call or a grant call failed with a conflict or
\* already-exists error ends with 'Setup complete' (exit code 0).
C7_ConflictAbsorbed ==
  \A p \in Runs :
    (run[p].pc \in Terminal
       /\ \E i \in 1..Len(run[p].log) :
            /\ run[p].log[i][1] \in CreateCalls \cup GrantCalls
            /\ ConflictShaped(run[p].log[i][2]))
      => run[p].pc = "complete"

\* C8: a mutating call that fails with an error that is not conflict-shaped is
\* the last call of its run, and the run does not reach 'Setup complete'.
C8_FatalAborts ==
  \A p \in Runs :
    \A i \in 1..Len(run[p].log) :
      (run[p].log[i][1] \in MutatingCalls
         /\ run[p].log[i][2] # OK
         /\ ~ConflictShaped(run[p].log[i][2]))
        => /\ i = Len(run[p].log)
           /\ run[p].pc # "complete"

\* C9: with AWS_REGION or DOMAIN_ID unset or empty the run exits with code 1,
\* reports exactly the unset or empty keys, and has built no client and issued
\* no remote call.
C9_MissingConfiguration ==
  \A p \in Runs :
    ((EmptyOrUnset(env.AWS_REGION) \/ EmptyOrUnset(env.DOMAIN_ID))
       /\ run[p].pc # "get_config")
      => /\ run[p].pc = "exit1"
         /\ Range(run[p].missing)
              = {k \in {"AWS_REGION", "DOMAIN_ID"} : EmptyOrUnset(env[k])}
         /\ Len(run[p].missing) = Cardinality(Range(run[p].missing))
         /\ run[p].log = <<>>
         /\ ~run[p].clients

\* An empty (not unset) region with a domain that is set: only AWS_REGION is reported.
C9_Witness ==
  /\ env.AWS_REGION = "" /\ env.DOMAIN_ID = "dzd_1"
  /\ run[1].pc = "exit1"
  /\ run[1].missing = <<"AWS_REGION">>

\* The lookup call of the pair failed at position i of the run's log.
LookupFailed(r, i, listing) == r.log[i][1] = listing /\ r.log[i][2] # OK

\* C10: when the listing inside find_blueprint or find_project_profile fails,
\* the lookup yields None without ending the run, and the next call is the
\* create call of that resource, never the update call.
C10_LookupDegrades ==
  \A p \in Runs :
    \A i \in 1..Len(run[p].log) :
      /\ LookupFailed(run[p], i, "list_environment_blueprints") =>
           /\ run[p].existing_blueprint = NoId
           /\ Calls(run[p], "update_environment_blueprint") = 0
           /\ IF i = Len(run[p].log)
              THEN run[p].pc = "create_environment_blueprint"
              ELSE run[p].log[i + 1][1] = "create_environment_blueprint"
      /\ LookupFailed(run[p], i, "list_project_profiles") =>
           /\ run[p].existing_profile = NoId
           /\ Calls(run[p], "update_project_profile") = 0
           /\ IF i = Len(run[p].log)
              THEN run[p].pc = "create_project_profile"
              ELSE run[p].log[i + 1][1] = "create_project_profile"

\* The listing failed while a blueprint of the name exists, and the create call went out.
C10_Witness ==
  \E p \in Runs :
    /\ \E i \in 1..Len(run[p].log) : LookupFailed(run[p], i, "list_environment_blueprints")
    /\ HasName(remote.bps, BlueprintName)
    /\ Calls(run[p], "create_environment_blueprint") = 1

(* --------------------------- orchestration ------------------------------ *)
\* The step of main (as the specification numbers them) a remote call belongs
\* to; 0 for the calls that belong to no numbered step.
StepOf(call) ==
  CASE call = "list_environment_blueprints(managed)" -> 1
    [] call \in {"create_environment_blueprint", "update_environment_blueprint"} -> 2
    [] call = "put_environment_blueprint_configuration" -> 3
    [] call \in {"add_policy_grant(CREATE_ENVIRONMENT_PROFILE)",
                 "add_policy_grant(CREATE_ENVIRONMENT_FROM_BLUEPRINT)"} -> 4
    [] call \in {"create_project_profile", "update_project_profile"} -> 5
    [] call \in {"list_policy_grants", AllUsersGrantCall} -> 6
    [] OTHER -> 0

\* The run made (or is about to make) a call of the step.
Reached(r, step) ==
  \/ StepOf(r.pc) = step
  \/ \E i \in 1..Len(r.log) : StepOf(r.log[i][1]) = step

\* C11: in every run the remote calls of the steps come in the order Tooling
\* lookup, blueprint create/update, enablement, blueprint grants, profile
\* create/update, all-users grant; the blueprint and enablement calls use a
\* blueprint id the run already holds, the profile call the Tooling id and the
\* blueprint id of this run, the all-users grant the profile id of this run.
C11_OrchestrationOrder ==
  \A p \in Runs :
    LET r == run[p] IN
    /\ \A i, j \in 1..Len(r.log) :
         (i < j /\ StepOf(r.log[i][1]) # 0 /\ StepOf(r.log[j][1]) # 0)
           => StepOf(r.log[i][1]) <= StepOf(r.log[j][1])
    /\ \A i \in 1..Len(r.log) :
         (StepOf(r.log[i][1]) # 0 /\ StepOf(r.pc) # 0) => StepOf(r.log[i][1]) <= StepOf(r.pc)
    /\ \A step \in 2..6 : Reached(r, step) =>
         /\ Calls(r, "list_environment_blueprints(managed)") = 1
         /\ r.tooling_blueprint_id = ToolingId
    /\ \A step \in 3..6 : Reached(r, step) =>
         /\ CallsIn(r, {"create_environment_blueprint", "update_environment_blueprint"}) = 1
         /\ r.blueprint_id # NoId
         /\ \E i \in 1..Len(remote.bps) :
              remote.bps[i].id = r.blueprint_id /\ remote.bps[i].name = BlueprintName
    /\ \A step \in 4..6 : Reached(r, step) =>
         Calls(r, "put_environment_blueprint_configuration") = 1
    /\ Reached(r, 5) =>
         /\ Len(r.environment_configs) = 2
         /\ r.environment_configs[1].environmentBlueprintId = r.tooling_blueprint_id
         /\ r.environment_configs[2].environmentBlueprintId = r.blueprint_id
         /\ r.root_domain_unit_id # NoId =>
              /\ Calls(r, "add_policy_grant(CREATE_ENVIRONMENT_PROFILE)") = 1
              /\ Calls(r, "add_policy_grant(CREATE_ENVIRONMENT_FROM_BLUEPRINT)") = 1
    /\ Reached(r, 6) =>
         /\ CallsIn(r, {"create_project_profile", "update_project_profile"}) = 1
         /\ r.profile_id # NoId
         /\ ProfileById(remote.profiles, r.profile_id) # <<>>
         /\ Calls(r, AllUsersGrantCall) = 1 => r.profile_id \in r.all_profiles

\* A run went through all six steps, the blueprint and the profile both created
\* by it, and ended with the all-users grant.
C11_Witness ==
  \E p \in Runs :
    /\ run[p].pc = "complete"
    /\ \A step \in 1..6 : Reached(run[p], step)
    /\ Calls(run[p], "create_environment_blueprint") = 1
    /\ Calls(run[p], "create_project_profile") = 1
    /\ Calls(run[p], AllUsersGrantCall) = 1

(* ---------------------- the domain connection role ---------------------- *)
\* The second script's run ended with `return 0`.
RoleDone(r) == r.pc = "return" /\ r.exit_code = <<0>>

\* C12: after a run of setup_domain_connection_role.py that returns 0, the role
\* exists, its trust policy is the document composed from the account id and
\* the DOMAIN_ID of the run and its inline policy DataZoneConnectionCreatorPolicy
\* is the composed permissions document, whatever the role held before; and no
\* run ends on the EntityAlreadyExists answer of create_role.
C12_RoleOverwritten ==
  \A p \in Runs :
    /\ RoleDone(dcr[p]) =>
         /\ iam.role # <<>>
         /\ iam.role[1].trust = TrustPolicy(AccountId, env.DOMAIN_ID)
         /\ iam.role[1].policy = <<PolicyDoc(AccountId, env.DOMAIN_ID)>>
    /\ dcr[p].pc = "raised" =>
         dcr[p].log[Len(dcr[p].log)] # <<"create_role", EEntityExists>>

\* A run returned 0 although the role was there with documents edited by hand
\* (or written for another domain) when create_role was called.
C12_Witness ==
  /\ RoleDone(dcr[1])
  /\ dcr[1].log[2] = <<"create_role", EEntityExists>>
  /\ Calls(dcr[1], "update_assume_role_policy") = 1
  /\ Calls(dcr[1], "put_role_policy") = 1
  /\ iam.role[1].other

(* ------------------------------ no rollback ----------------------------- *)
\* The run logged a successful call of one of the names.
Succeeded(r, calls) == \E i \in 1..Len(r.log) : r.log[i][1] \in calls /\ r.log[i][2] = OK

\* Calls that would undo an earlier step.
CompensatingCalls ==
  {"delete_environment_blueprint", "delete_environment_blueprint_configuration",
   "remove_policy_grant", "delete_project_profile"}

\* C13: when a run has aborted (and no later run has acted yet), what its
\* earlier successful calls wrote is still there: the created or updated
\* blueprint with the desired fields, the enablement, the blueprint grants, the
\* profile; and the aborted run's log holds no delete or compensating call.
C13_NoRollback ==
  \A p \in Runs :
    LET r == run[p] IN
    (r.pc = "aborted" /\ (p = 1 => run[2].log = <<>>)) =>
      /\ CallsIn(r, CompensatingCalls) = 0
      /\ Succeeded(r, {"create_environment_blueprint", "update_environment_blueprint"}) =>
           \E i \in 1..Len(remote.bps) :
             remote.bps[i] = DesiredBlueprint(r.blueprint_id, r.config.AWS_REGION)
      /\ Succeeded(r, {"put_environment_blueprint_configuration"}) =>
           ConfigParams(r) \in remote.bpConfig
      /\ \A policyType \in {GrantProfile, GrantFromBlueprint} :
           Succeeded(r, {"add_policy_grant(" \o policyType \o ")"}) =>
             [entity |-> r.blueprint_id, policyType |-> policyType] \in remote.bpGrants
      /\ Succeeded(r, {"create_project_profile", "update_project_profile"}) =>
           ProfileById(remote.profiles, r.profile_id) # <<>>

\* A run aborted at the profile call after it had created the blueprint,
\* enabled it and added both blueprint grants.
C13_Witness ==
  \E p \in Runs :
    /\ run[p].pc = "aborted"
    /\ run[p].log[Len(run[p].log)][1] \in {"create_project_profile", "update_project_profile"}
    /\ Succeeded(run[p], {"create_environment_blueprint"})
    /\ Succeeded(run[p], {"put_environment_blueprint_configuration"})
    /\ Succeeded(run[p], {"add_policy_grant(CREATE_ENVIRONMENT_PROFILE)"})
    /\ Succeeded(run[p], {"add_policy_grant(CREATE_ENVIRONMENT_FROM_BLUEPRINT)"})
    /\ [entity |-> run[p].blueprint_id, policyType |-> GrantProfile] \in remote.bpGrants

(* ------------------------- the profile payload -------------------------- *)
\* The run has composed (or sent) the payload of its profile call.
ProfilePayloadReady(r) ==
  \/ r.pc \in {"create_project_profile", "update_project_profile"}
  \/ CallsIn(r, {"create_project_profile", "update_project_profile"}) > 0

\* C14: the environmentConfigurations of every create_project_profile or
\* update_project_profile payload are exactly two, the Tooling blueprint with
\* deploymentOrder 0 first and the NeMo-Tooling blueprint with deploymentOrder 1
\* second, whatever configs the existing remote profile holds and in what order.
C14_ConfigOrder ==
  \A p \in Runs :
    LET r == run[p]
        cfgs == r.environment_configs
    IN ProfilePayloadReady(r) =>
         /\ Len(cfgs) = 2
         /\ cfgs[1].environmentBlueprintId = r.tooling_blueprint_id
         /\ cfgs[1].name = "Tooling"
         /\ cfgs[1].deploymentOrder = 0
         /\ cfgs[2].environmentBlueprintId = r.blueprint_id
         /\ cfgs[2].name = "NeMo Tooling"
         /\ cfgs[2].deploymentOrder = 1

\* An update is about to be sent for a profile whose remote configs are three,
\* with the NeMo-Tooling config listed before the Tooling config.
C14_Witness ==
  \E p \in Runs :
    /\ run[p].pc = "update_project_profile"
    /\ Calls(run[p], "get_project_profile") = 1
    /\ LET hit == ProfileById(remote.profiles, run[p].existing_profile)
       IN /\ hit # <<>>
          /\ Len(hit[1].environmentConfigurations) = 3
          /\ hit[1].environmentConfigurations[1].environmentBlueprintId = run[p].blueprint_id

(* ------------------ the second script's configuration ------------------- *)
\* C15: with DOMAIN_ID unset or empty, a run of setup_domain_connection_role.py
\* that has started builds no client and makes no remote call, and ends with
\* exit code 1.
C15_DomainIdRequired ==
  \A p \in Runs :
    EmptyOrUnset(env.DOMAIN_ID) =>
      /\ dcr[p].pc \in {"main", "return"}
      /\ dcr[p].pc = "return" => dcr[p].exit_code = <<1>>
      /\ ~dcr[p].clients
      /\ dcr[p].log = <<>>

\* DOMAIN_ID is set to the empty string and the first run has returned 1; the
\* role the account held is as it was.
C15_Witness ==
  /\ env.DOMAIN_ID = ""
  /\ dcr[1].pc = "return"
  /\ dcr[1].exit_code = <<1>>
  /\ iam.role \in InitRoles \ {<<>>}

(* ------------------------- error classification ------------------------- *)
\* The handler of the call at position i of a run's log took the error for a
\* benign conflict: setup-blueprint.py prints "already exists" for it, the
\* second script goes on instead of raising it again.
TakenAsBenign(p, i) ==
  LET call == run[p].log[i][1] IN
  CASE call = "add_policy_grant(CREATE_ENVIRONMENT_PROFILE)" ->
         run[p].grant_reports[1] = "already exists"
    [] call = "add_policy_grant(CREATE_ENVIRONMENT_FROM_BLUEPRINT)" ->
         run[p].grant_reports[2] = "already exists"
    [] call = AllUsersGrantCall -> run[p].auth_report = "Authorization already exists"
RoleTakenAsBenign(p, i) == ~(dcr[p].pc = "raised" /\ i = Len(dcr[p].log))

\* C16: at every mutating call site of both scripts an error is taken for a
\* benign conflict exactly when its text or code carries a conflict or an
\* already-exists marker.
C16_UniformClassification ==
  \A p \in Runs :
    /\ \A i \in 1..Len(run[p].log) :
         (run[p].log[i][1] \in GrantCalls /\ run[p].log[i][2] # OK)
           => (TakenAsBenign(p, i) <=> ConflictShaped(run[p].log[i][2]))
    /\ \A i \in 1..Len(dcr[p].log) :
         (/\ dcr[p].log[i][1] \in {"create_role", "create_user_profile", "add_entity_owner"}
          /\ dcr[p].log[i][2] # OK)
           => (RoleTakenAsBenign(p, i) <=> ConflictShaped(dcr[p].log[i][2]))

(* ------------------------- whole-object replace ------------------------- *)
\* A list of configs without the ids the backend assigned.
WithoutIds(cfgs) == [i \in 1..Len(cfgs) |-> [cfgs[i] EXCEPT !.id = NoId]]

\* C17: once a run's update_environment_blueprint has succeeded, the remote
\* blueprint's description, template URL and parameter list are the desired
\* ones; once its update_project_profile has succeeded, the remote profile's
\* description is the desired one and its configs are, ids apart, the two
\* desired configs and no other: nothing of what the fields held before is left.
C17_WholeObjectReplace ==
  \A p \in Runs :
    LET r == run[p] IN
    /\ Succeeded(r, {"update_environment_blueprint"}) =>
         \E i \in 1..Len(remote.bps) :
           remote.bps[i] = DesiredBlueprint(r.existing_blueprint, r.config.AWS_REGION)
    /\ Succeeded(r, {"update_project_profile"}) =>
         LET hit == ProfileById(remote.profiles, r.existing_profile) IN
         /\ hit # <<>>
         /\ hit[1].description = ProfileDescription
         /\ WithoutIds(hit[1].environmentConfigurations)
              = DesiredConfigs(r.tooling_blueprint_id, r.blueprint_id)

\* The first run completed after updating a blueprint whose description,
\* template URL and parameters had been edited and a profile that had an edited
\* description and a third config added by hand.
C17_Witness ==
  /\ run[1].pc = "complete"
  /\ Succeeded(run[1], {"update_environment_blueprint"})
  /\ Succeeded(run[1], {"update_project_profile"})
  /\ remote0.bps = <<DriftedBlueprint(ExistingBlueprintId)>>
  /\ remote0.profiles = <<DriftedProfile>>

(* --------------------------- ids in the payload ------------------------- *)
\* C18: a config of the profile payload carries an id only on the update path,
\* and then the id of an existing remote config of the same blueprint; a
\* desired config whose blueprint no existing config with an id has carries
\* none, and the create payload carries none at all.
C18_IdsOnlyOnMatch ==
  \A p \in Runs :
    LET r == run[p]
        cfgs == r.environment_configs
    IN
    /\ r.pc = "create_project_profile" => \A k \in 1..Len(cfgs) : cfgs[k].id = NoId
    /\ r.pc = "update_project_profile" =>
         \A k \in 1..Len(cfgs) :
           /\ cfgs[k].id # NoId =>
                \E ec \in ExistingConfigs(p) :
                  /\ ec.environmentBlueprintId = cfgs[k].environmentBlueprintId
                  /\ ec.id = cfgs[k].id
           /\ (\A ec \in ExistingConfigs(p) :
                 ec.environmentBlueprintId = cfgs[k].environmentBlueprintId => ec.id = NoId)
                => cfgs[k].id = NoId

\* An update payload in which the Tooling config carries the id of the existing
\* Tooling config and the NeMo-Tooling config, whose blueprint no existing
\* config names, carries none.
C18_Witness ==
  \E p \in Runs :
    /\ run[p].pc = "update_project_profile"
    /\ run[p].environment_configs[1].id # NoId
    /\ run[p].environment_configs[2].id = NoId
    /\ \E ec \in ExistingConfigs(p) : ec.id = run[p].environment_configs[1].id
    /\ \A ec \in ExistingConfigs(p) : ec.environmentBlueprintId # run[p].blueprint_id

(* ------------------------- the blueprint grants ------------------------- *)
FirstGrantCall == "add_policy_grant(CREATE_ENVIRONMENT_PROFILE)"
SecondGrantCall == "add_policy_grant(CREATE_ENVIRONMENT_FROM_BLUEPRINT)"

\* The run is past authorize_blueprint_for_domain_unit, having entered it.
GrantsDone(r) ==
  /\ Calls(r, FirstGrantCall) > 0
  /\ r.pc \notin {FirstGrantCall, SecondGrantCall}

\* C19: a run that entered authorize_blueprint_for_domain_unit makes each of the
\* two grant calls once; whatever the first call answered (success, conflict or
\* another error) the second call is the next one; and a conflict answer to
\* either call is printed as "already exists" while the other call's outcome is
\* printed for what it was.
C19_GrantsIndependent ==
  \A p \in Runs :
    LET r == run[p] IN
    /\ Calls(r, FirstGrantCall) <= 1
    /\ Calls(r, SecondGrantCall) <= 1
    /\ GrantsDone(r) => Calls(r, FirstGrantCall) = 1 /\ Calls(r, SecondGrantCall) = 1
    /\ \A i \in 1..Len(r.log) :
         /\ r.log[i][1] = FirstGrantCall =>
              /\ IF i = Len(r.log) THEN r.pc = SecondGrantCall
                 ELSE r.log[i + 1][1] = SecondGrantCall
              /\ HasConflict(r.log[i][2]) => r.grant_reports[1] = "already exists"
              /\ r.log[i][2] = OK => r.grant_reports[1] = "added"
         /\ r.log[i][1] = SecondGrantCall =>
              /\ r.log[i - 1][1] = FirstGrantCall
              /\ HasConflict(r.log[i][2]) => r.grant_reports[2] = "already exists"
              /\ r.log[i][2] = OK => r.grant_reports[2] = "added"

\* The first grant call failed with an error that is no conflict and the second
\* one was made and added its grant.
C19_Witness ==
  \E p \in Runs :
    /\ GrantsDone(run[p])
    /\ \E i \in 1..Len(run[p].log) :
         /\ run[p].log[i] = <<FirstGrantCall, EDenied>>
         /\ run[p].log[i + 1] = <<SecondGrantCall, OK>>
    /\ run[p].grant_reports = <<"warning", "added">>
    /\ [entity |-> run[p].blueprint_id, policyType |-> GrantFromBlueprint] \in remote.bpGrants

(* ---------------------------- concurrent runs --------------------------- *)
\* The run's lookup of the name returned without error and found nothing.
ObservedAbsent(r, listing, existing) ==
  /\ \E i \in 1..Len(r.log) : r.log[i] = <<listing, OK>>
  /\ existing = NoId

\* C20: with two runs interleaved, a run whose lookup found the blueprint (the
\* profile) absent goes on to the create call of that name and makes it,
\* whatever the other run has created in the meantime: there is no lock and no
\* second lookup, so both runs can send a create call for the same name.
C20_NoRecheck ==
  \A p \in Runs :
    LET r == run[p] IN
    /\ ObservedAbsent(r, "list_environment_blueprints", r.existing_blueprint) =>
         \/ r.pc = "create_environment_blueprint"
         \/ Calls(r, "create_environment_blueprint") = 1
    /\ ObservedAbsent(r, "list_project_profiles", r.existing_profile) =>
         \/ r.pc = "create_project_profile"
         \/ Calls(r, "create_project_profile") = 1

\* Both runs looked the blueprint up while it was absent, and both have sent
\* create_environment_blueprint for the name: one call created the blueprint,
\* the other was a duplicate create.
C20_Witness ==
  /\ interleaved
  /\ remote0.bps = <<>>
  /\ \A p \in Runs :
       /\ ObservedAbsent(run[p], "list_environment_blueprints", run[p].existing_blueprint)
       /\ Calls(run[p], "create_environment_blueprint") = 1
  /\ \E p \in Runs : Succeeded(run[p], {"create_environment_blueprint"})
  /\ Len(remote.bps) = 1

(* ------------------------- Tooling is not there ------------------------- *)
\* The calls that write to the domain or to the bucket.
WritingCalls == MutatingCalls \cup {"create_bucket", "upload_file"}

\* C21: when the listing of the managed blueprints holds no 'Tooling', a run
\* that has read the listing is at exit 1, and no run uploads the template,
\* creates or updates the blueprint, enables it, adds a grant or sends a
\* profile call: the domain and the bucket stay as they were.
C21_ToolingRequired ==
  ~HasName(remote.managed, "Tooling") =>
    /\ remote = remote0
    /\ \A p \in Runs :
         /\ CallsIn(run[p], WritingCalls) = 0
         /\ run[p].pc \in {"get_config", "get_caller_identity", "list_managed",
                           "exit1", "aborted"}
         /\ Calls(run[p], "list_environment_blueprints(managed)") = 1 =>
              \/ run[p].pc = "exit1"
              \/ run[p].log[Len(run[p].log)] # <<"list_environment_blueprints(managed)", OK>>

\* The first run read a listing of managed blueprints without 'Tooling' (it
\* holds another managed blueprint) and is at exit 1 with its configuration
\* complete.
C21_Witness ==
  /\ run[1].pc = "exit1"
  /\ run[1].missing = <<>>
  /\ run[1].log[Len(run[1].log)] = <<"list_environment_blueprints(managed)", OK>>
  /\ ~HasName(remote.managed, "Tooling")
  /\ remote.managed = <<ManagedDataLake>>

(* -------------------- authorize_all_users gives up ---------------------- *)
\* Position i of the run's log is the get_project_profile of
\* authorize_all_users: the call that follows the profile create or update.
IsAuthGetProfile(r, i) ==
  /\ i > 1
  /\ r.log[i][1] = "get_project_profile"
  /\ r.log[i - 1][1] \in {"create_project_profile", "update_project_profile"}

\* The grants of the domain when run p started.
GrantsAtStart(p) == IF p = 1 THEN remote0.grants ELSE after1.grants

\* C22: when the get_project_profile of authorize_all_users fails, or returns a
\* profile without domainUnitId, it is the last call of the run: the run is
\* complete, it has made no list_policy_grants and no all-users add_policy_grant
\* call, and (until a later run acts) the grants are those the run started with.
C22_NoUnitNoGrant ==
  \A p \in Runs :
    LET r == run[p] IN
    \A i \in 1..Len(r.log) :
      (IsAuthGetProfile(r, i) /\ (r.log[i][2] # OK \/ r.domain_unit_id = NoId)) =>
        /\ i = Len(r.log)
        /\ r.pc = "complete"
        /\ Calls(r, "list_policy_grants") = 0
        /\ Calls(r, AllUsersGrantCall) = 0
        /\ (p = 1 => run[2].log = <<>>) => remote.grants = GrantsAtStart(p)

\* A run completed after the profile it updated came back without a
\* domainUnitId, in a domain that holds all-users grants.
C22_Witness ==
  \E p \in Runs :
    /\ run[p].pc = "complete"
    /\ IsAuthGetProfile(run[p], Len(run[p].log))
    /\ run[p].log[Len(run[p].log)][2] = OK
    /\ run[p].domain_unit_id = NoId
    /\ run[p].auth_report = "Warning: No domain unit ID found on profile"
    /\ remote.grants # {}

(* ------------------------------ termination ----------------------------- *)
\* No mutating call is logged twice by one run; a run sends a create or an
\* update of a resource, never both.
EachAtMostOnce ==
  \A p \in Runs :
    /\ \A call \in MutatingCalls : Calls(run[p], call) <= 1
    /\ CallsIn(run[p], {"create_environment_blueprint", "update_environment_blueprint"}) <= 1
    /\ CallsIn(run[p], {"create_project_profile", "update_project_profile"}) <= 1

\* A run that has reached an outcome stays as it is.
OutcomeKept == \A p \in Runs : run[p].pc \in Terminal => run'[p] = run[p]

\* C23: given that every remote call returns, every run ends in one of the
\* outcomes exit 1 (missing configuration or no Tooling blueprint), abort by a
\* propagated error, or 'Setup complete', and keeps it; and no run issues a
\* mutating call more than once.
C23_TerminatesOnce ==
  /\ []EachAtMostOnce
  /\ [][OutcomeKept]_vars
  /\ <>[](\A p \in Runs : run[p].pc \in Terminal)

\* The first run was ended by a propagated error after its enablement call and
\* the second run completed, having made every mutating call once.
C23_Witness ==
  /\ run[1].pc = "aborted"
  /\ Calls(run[1], "put_environment_blueprint_configuration") = 1
  /\ run[2].pc = "complete"
  /\ \A call \in GrantCalls \cup {"put_environment_blueprint_configuration"} :
       Calls(run[2], call) = 1
  /\ CallsIn(run[2], {"create_environment_blueprint", "update_environment_blueprint"}) = 1
  /\ CallsIn(run[2], {"create_project_profile", "update_project_profile"}) = 1

====
